---- MODULE Spec2Model ----
(***************************************************************************)
(* Model of mesos/register.go of mesos-consul: the host reconciler         *)
(* (RegisterHosts, registerHost), the task reconciler (registerTask), the  *)
(* tag builders (agentTags, buildRegisterTaskTags) and LoadCache.          *)
(*                                                                         *)
(* Go strings that are concatenated, split, cleaned or compared by prefix  *)
(* are sequences of one-character strings.  Label keys, error messages and *)
(* the names of registry calls are only compared whole and are TLA+        *)
(* strings.                                                                *)
(***************************************************************************)
EXTENDS Integers, Sequences, FiniteSets, TLC

VARIABLES
    m,          \* the Mesos object: configuration, collaborators, m.Agents
    cache,      \* the registry client's cache: identifier -> tags
    calls,      \* the registry calls made by the latest operation, in order
    opName,     \* the latest operation
    task,       \* the task given to the latest registerTask
    agentArg,   \* the agent given to the latest registerTask
    ret,        \* what the latest operation returned ("nil", an error, "panic")
    snap,       \* the snapshot (workers, control-plane nodes) of the latest RegisterHosts
    loaded,     \* LoadCache has run
    prior,      \* the cache as it was when the latest operation started
    built,      \* the entries the latest operation built, in order
    produced,   \* every identifier built so far, with the node or task it was built for
    nHosts,     \* RegisterHosts calls so far
    nTasks,     \* registerTask calls so far
    applied     \* the latest application of a tag function: [fn, args, result]

vars == <<m, cache, calls, opName, task, agentArg, ret, snap, loaded, prior, built,
          produced, nHosts, nTasks, applied>>

----------------------------------------------------------------------------
(* Bounds *)

MaxSlaves == 1
MaxMasters == 2
MaxHostPasses == 2
MaxPorts == 2
MaxTaskCalls == 2
MaxSuffixes == 2
MaxRoles == 2
MaxStartTags == 2

----------------------------------------------------------------------------
(* Strings *)

Range(f) == {f[i] : i \in DOMAIN f}

Colon == <<":">>
Dash == <<"-">>
Dot == <<".">>
Comma == <<",">>

MesosConsul == <<"m","e","s","o","s","-","c","o","n","s","u","l">>
AgentRole == <<"a","g","e","n","t">>
FollowerRole == <<"f","o","l","l","o","w","e","r">>
LeaderRole == <<"l","e","a","d","e","r">>
MasterRole == <<"m","a","s","t","e","r">>
HttpScheme == <<"h","t","t","p",":","/","/">>
SlaveHealthPath == <<"/","s","l","a","v","e","(","1",")","/","h","e","a","l","t","h">>
MasterHealthPath == <<"/","m","a","s","t","e","r","/","h","e","a","l","t","h">>
Interval10s == <<"1","0","s">>

ErrConsulLabel == "Application with consul label"
ErrNotAllowed == "Task not allowed to be registered"

DigitChars == <<"0","1","2","3","4","5","6","7","8","9">>

\* strconv.Itoa and the %d verb of fmt.Sprintf
RECURSIVE Itoa(_)
Itoa(n) ==
    IF n < 0 THEN Dash \o Itoa(0 - n)
    ELSE IF n < 10 THEN <<DigitChars[n + 1]>>
    ELSE Itoa(n \div 10) \o <<DigitChars[(n % 10) + 1]>>

DigitValue(c) == CHOOSE d \in 0..9 : DigitChars[d + 1] = c

IsDigits(str) == Len(str) > 0 /\ \A i \in 1..Len(str) : str[i] \in Range(DigitChars)

RECURSIVE Atoi(_)
Atoi(str) ==
    IF Len(str) = 1 THEN DigitValue(str[1])
    ELSE 10 * Atoi(SubSeq(str, 1, Len(str) - 1)) + DigitValue(str[Len(str)])

\* toPort: the port string as a number; strconv.Atoi yields 0 for a string
\* that is not a number
toPort(p) == IF IsDigits(p) THEN Atoi(p) ELSE 0

HasPrefix(str, pre) == Len(str) >= Len(pre) /\ SubSeq(str, 1, Len(pre)) = pre

----------------------------------------------------------------------------
(* The Mesos object *)

Str_p == <<"p">>
Str_t == <<"t">>
Str_u == <<"u">>
Str_x == <<"x">>
Str_y == <<"y">>
Str_z == <<"z">>
Str_a == <<"a">>
Str_b == <<"b">>
Str_web == <<"w","e","b">>
ServiceNameMesos == <<"m","e","s","o","s">>

NoRules == [pattern \in {} |-> <<>>]
Rules == [pattern \in {Str_a, Str_b} |->
            IF pattern = Str_a THEN <<Str_x, Str_y>> ELSE <<Str_y, Str_z>>]

NoAgents == [id \in {} |-> <<>>]

\* Configurations of the Mesos object as main() builds it from the flags, and
\* the zero object of new(Mesos) with no collaborator set.
Configs ==
    { [ServiceIdPrefix |-> MesosConsul, ServiceName |-> ServiceNameMesos,
       Separator |-> Dash, ServiceTags |-> <<>>, taskTag |-> NoRules,
       IpOrder |-> <<"netinfo", "host">>, AllowList |-> {Str_a, Str_web},
       Registry |-> "set", TaskPrivilege |-> "set", Agents |-> NoAgents],
      [ServiceIdPrefix |-> Str_p, ServiceName |-> ServiceNameMesos,
       Separator |-> Dash, ServiceTags |-> <<Str_t, Str_u>>, taskTag |-> Rules,
       IpOrder |-> <<"host">>, AllowList |-> {Str_a, Str_web},
       Registry |-> "set", TaskPrivilege |-> "set", Agents |-> NoAgents],
      [ServiceIdPrefix |-> <<>>, ServiceName |-> <<>>,
       Separator |-> <<>>, ServiceTags |-> <<>>, taskTag |-> NoRules,
       IpOrder |-> <<>>, AllowList |-> {},
       Registry |-> "nil", TaskPrivilege |-> "nil", Agents |-> NoAgents] }

----------------------------------------------------------------------------
(* The registry client.  st is the registry as one operation sees it:      *)
(* [cache, calls, panic].                                                  *)

NoService ==
    [ID |-> <<>>, Name |-> <<>>, Port |-> 0, Address |-> <<>>, Agent |-> <<>>,
     Tags |-> <<>>, Check |-> <<>>]

\* A call of a collaborator: the function, the identifier (or name) it is
\* given, the entry it is given, and for CacheLookup the cached entry it returns
NotCached == [found |-> FALSE, Tags |-> <<>>]

Call(fn, id, s, h) == [fn |-> fn, ID |-> id, svc |-> s, h |-> h]

Logged(st, c) == [st EXCEPT !.calls = Append(@, c)]

\* Register stores the entry it is given
Register(st, s) ==
    IF m.Registry = "nil" THEN [st EXCEPT !.panic = TRUE]
    ELSE [Logged(st, Call("Register", s.ID, s, NotCached)) EXCEPT
            !.cache = [id \in DOMAIN st.cache \cup {s.ID} |->
                         IF id = s.ID THEN s.Tags ELSE st.cache[id]]]

CacheMark(st, id) == Logged(st, Call("CacheMark", id, NoService, NotCached))

CacheDelete(st, id) ==
    [Logged(st, Call("CacheDelete", id, NoService, NotCached)) EXCEPT
        !.cache = [i \in DOMAIN st.cache \ {id} |-> st.cache[i]]]

CacheLookup(st, s) ==
    Logged(st, Call("CacheLookup", s.ID, s,
                    IF s.ID \in DOMAIN st.cache
                    THEN [found |-> TRUE, Tags |-> st.cache[s.ID]]
                    ELSE NotCached))

\* CacheLoad keeps the catalog's entries whose identifier has the prefix
CacheLoad(catalog, prefix) ==
    LET ids == {id \in DOMAIN catalog : HasPrefix(id, prefix \o Colon)}
    IN  [id \in ids |-> catalog[id]]

sliceContainsString(s, e) == \E i \in 1..Len(s) : s[i] = e

sliceEq(a, b) ==
    /\ Len(a) = Len(b)
    /\ \A i \in 1..Len(a) : sliceContainsString(b, a[i])

----------------------------------------------------------------------------
(* Cluster state: workers (state.Slave) and control-plane nodes            *)

Str_10_0_0 == <<"1","0",".","0",".","0",".">>
Str_10_0_1 == <<"1","0",".","0",".","1",".">>
Str_5051 == <<"5","0","5","1">>

\* The i-th worker of the cluster.  Odd workers report a host name, even ones
\* an address.
Worker(i) ==
    [ID |-> <<"S">> \o Itoa(i),
     Hostname |-> <<"h">> \o Itoa(i),
     PID |-> [Host |-> IF i % 2 = 1 THEN <<"h">> \o Itoa(i) ELSE Str_10_0_0 \o Itoa(i),
              Port |-> Str_5051]]

\* The i-th control-plane node, as getMasters reports it
MasterHost(i, leader) ==
    [Ip |-> Str_10_0_1 \o Itoa(i), Port |-> 5050, PortString |-> Itoa(5050),
     IsLeader |-> (i = leader)]

\* Snapshots: the first n workers, the first k control-plane nodes, at most
\* one of them the leader (none while an election runs).
Snapshots ==
    { [Slaves |-> [i \in 1..n |-> Worker(i)],
       Masters |-> [i \in 1..k |-> MasterHost(i, leader)]] :
         n \in 0..MaxSlaves, k \in 0..MaxMasters, leader \in 0..MaxMasters }

NoSnapshot == [Slaves |-> <<>>, Masters |-> <<>>]

\* toIP: an address is returned as it is, a host name is resolved; a name that
\* does not resolve is returned as it is.
toIP(host) ==
    IF Len(host) > 1 /\ host[1] = "h" /\ IsDigits(Tail(host))
    THEN Str_10_0_0 \o Tail(host)
    ELSE host

----------------------------------------------------------------------------
(* Host reconciler *)

RECURSIVE agentTagsFrom(_, _, _, _)
agentTagsFrom(serviceTags, ts, i, j) ==
    IF i > Len(serviceTags) THEN <<>>
    ELSE IF j > Len(ts) THEN agentTagsFrom(serviceTags, ts, i + 1, 1)
    ELSE <<ts[j] \o Dot \o serviceTags[i]>> \o agentTagsFrom(serviceTags, ts, i, j + 1)

\* agentTags without the return for an empty ServiceTags
agentTagsOf_NoEarlyReturn(serviceTags, ts) == agentTagsFrom(serviceTags, ts, 1, 1)

agentTagsOf(serviceTags, ts) ==
    IF Len(serviceTags) = 0 THEN ts
    ELSE agentTagsFrom(serviceTags, ts, 1, 1)

agentTags(ts) == agentTagsOf(m.ServiceTags, ts)

\* registerHost comparing the tags in order
registerHost_OrderedCompare(st, s) ==
    IF m.Registry = "nil" THEN [st EXCEPT !.panic = TRUE]
    ELSE LET looked == CacheLookup(st, s)
         IN  IF s.ID \in DOMAIN st.cache
             THEN IF s.Tags = st.cache[s.ID]
                  THEN CacheMark(looked, s.ID)
                  ELSE Register(CacheDelete(looked, s.ID), s)
             ELSE Register(looked, s)

\* registerHost without the CacheDelete before the re-registration
registerHost_NoDelete(st, s) ==
    IF m.Registry = "nil" THEN [st EXCEPT !.panic = TRUE]
    ELSE LET looked == CacheLookup(st, s)
         IN  IF s.ID \in DOMAIN st.cache
             THEN IF sliceEq(s.Tags, st.cache[s.ID])
                  THEN CacheMark(looked, s.ID)
                  ELSE Register(looked, s)
             ELSE Register(looked, s)

\* registerHost with the Register call inside the h != nil block
registerHost_RegisterInBlock(st, s) ==
    IF m.Registry = "nil" THEN [st EXCEPT !.panic = TRUE]
    ELSE LET looked == CacheLookup(st, s)
         IN  IF s.ID \in DOMAIN st.cache
             THEN IF sliceEq(s.Tags, st.cache[s.ID])
                  THEN CacheMark(looked, s.ID)
                  ELSE Register(CacheDelete(looked, s.ID), s)
             ELSE looked

\* registerHost confirming every cached entry without comparing the tags
registerHost_MarkFound(st, s) ==
    IF m.Registry = "nil" THEN [st EXCEPT !.panic = TRUE]
    ELSE LET looked == CacheLookup(st, s)
         IN  IF s.ID \in DOMAIN st.cache
             THEN CacheMark(looked, s.ID)
             ELSE Register(looked, s)

\* registerHost without the return after CacheMark
registerHost_MarkThenRegister(st, s) ==
    IF m.Registry = "nil" THEN [st EXCEPT !.panic = TRUE]
    ELSE LET looked == CacheLookup(st, s)
         IN  IF s.ID \in DOMAIN st.cache
             THEN IF sliceEq(s.Tags, st.cache[s.ID])
                  THEN Register(CacheMark(looked, s.ID), s)
                  ELSE Register(CacheDelete(looked, s.ID), s)
             ELSE Register(looked, s)

\* registerHost deleting the cached entry after the re-registration
registerHost_DeleteAfterRegister(st, s) ==
    IF m.Registry = "nil" THEN [st EXCEPT !.panic = TRUE]
    ELSE LET looked == CacheLookup(st, s)
         IN  IF s.ID \in DOMAIN st.cache
             THEN IF sliceEq(s.Tags, st.cache[s.ID])
                  THEN CacheMark(looked, s.ID)
                  ELSE CacheDelete(Register(looked, s), s.ID)
             ELSE Register(looked, s)

registerHost(st, s) ==
    IF m.Registry = "nil" THEN [st EXCEPT !.panic = TRUE]
    ELSE LET looked == CacheLookup(st, s)
         IN  IF s.ID \in DOMAIN st.cache
             THEN IF sliceEq(s.Tags, st.cache[s.ID])
                  THEN CacheMark(looked, s.ID)
                  ELSE Register(CacheDelete(looked, s.ID), s)
             ELSE Register(looked, s)

HttpCheck(address, port, path) ==
    [HTTP |-> HttpScheme \o address \o Colon \o Itoa(port) \o path,
     Interval |-> Interval10s]

SlaveService(f) ==
    LET agent == toIP(f.PID.Host)
        port == toPort(f.PID.Port)
    IN  [ID |-> m.ServiceIdPrefix \o Colon \o m.ServiceName \o Colon \o f.ID
                  \o Colon \o f.Hostname,
         Name |-> m.ServiceName,
         Port |-> port,
         Address |-> agent,
         Agent |-> agent,
         Tags |-> agentTags(<<AgentRole, FollowerRole>>),
         Check |-> HttpCheck(agent, port, SlaveHealthPath)]

\* MasterService giving every control-plane node the leader's roles
MasterService_AlwaysLeader(ma) ==
    [ID |-> m.ServiceIdPrefix \o Colon \o m.ServiceName \o Colon \o ma.Ip
              \o Colon \o ma.PortString,
     Name |-> m.ServiceName,
     Port |-> ma.Port,
     Address |-> ma.Ip,
     Agent |-> ma.Ip,
     Tags |-> agentTags(<<LeaderRole, MasterRole>>),
     Check |-> HttpCheck(ma.Ip, ma.Port, MasterHealthPath)]

MasterService(ma) ==
    [ID |-> m.ServiceIdPrefix \o Colon \o m.ServiceName \o Colon \o ma.Ip
              \o Colon \o ma.PortString,
     Name |-> m.ServiceName,
     Port |-> ma.Port,
     Address |-> ma.Ip,
     Agent |-> ma.Ip,
     Tags |-> IF ma.IsLeader THEN agentTags(<<LeaderRole, MasterRole>>)
              ELSE agentTags(<<MasterRole>>),
     Check |-> HttpCheck(ma.Ip, ma.Port, MasterHealthPath)]

\* The loop over s.Slaves: hs is [Agents, st, entries]
RECURSIVE registerSlaves(_, _, _)
registerSlaves(hs, slaves, i) ==
    IF i > Len(slaves) \/ hs.st.panic THEN hs
    ELSE LET f == slaves[i]
             svc == SlaveService(f)
         IN  registerSlaves(
               [Agents |-> [id \in DOMAIN hs.Agents \cup {f.ID} |->
                              IF id = f.ID THEN toIP(f.PID.Host) ELSE hs.Agents[id]],
                st |-> registerHost(hs.st, svc),
                entries |-> Append(hs.entries, [svc |-> svc, key |-> 0, what |-> "worker",
                                                of |-> f.ID])],
               slaves, i + 1)

\* The loop over getMasters()
RECURSIVE registerMasters(_, _, _)
registerMasters(hs, mas, i) ==
    IF i > Len(mas) \/ hs.st.panic THEN hs
    ELSE LET svc == MasterService(mas[i])
         IN  registerMasters(
               [hs EXCEPT !.st = registerHost(hs.st, svc),
                          !.entries = Append(@, [svc |-> svc, key |-> 0, what |-> "master",
                                                 of |-> mas[i].Ip \o Colon
                                                        \o mas[i].PortString])],
               mas, i + 1)

Fresh == [cache |-> cache, calls |-> <<>>, panic |-> FALSE]

\* The identifiers of built entries, each with what it was built for
Origins(es) ==
    {[ID |-> es[i].svc.ID, what |-> es[i].what, of |-> es[i].of, key |-> es[i].key] :
        i \in 1..Len(es)}

\* A call on a collaborator that is not set panics, and the program ends
Alive == ret # "panic"

\* RegisterHosts without line 32: m.Agents keeps the workers of earlier passes
RegisterHosts_KeepAgents(s) ==
    /\ Alive
    /\ nHosts < MaxHostPasses
    /\ \E hs \in {registerMasters(
                      registerSlaves([Agents |-> m.Agents, st |-> Fresh, entries |-> <<>>],
                                     s.Slaves, 1),
                      s.Masters, 1)} :
           /\ m' = [m EXCEPT !.Agents = hs.Agents]
           /\ cache' = hs.st.cache
           /\ calls' = hs.st.calls
           /\ ret' = IF hs.st.panic THEN "panic" ELSE "nil"
           /\ built' = hs.entries
           /\ produced' = produced \cup Origins(hs.entries)
    /\ prior' = cache
    /\ opName' = "RegisterHosts"
    /\ snap' = s
    /\ nHosts' = nHosts + 1
    /\ UNCHANGED <<task, agentArg, loaded, nTasks, applied>>

RegisterHosts(s) ==
    /\ Alive
    /\ nHosts < MaxHostPasses
    /\ \E hs \in {registerMasters(
                      registerSlaves([Agents |-> NoAgents, st |-> Fresh, entries |-> <<>>],
                                     s.Slaves, 1),
                      s.Masters, 1)} :
           /\ m' = [m EXCEPT !.Agents = hs.Agents]
           /\ cache' = hs.st.cache
           /\ calls' = hs.st.calls
           /\ ret' = IF hs.st.panic THEN "panic" ELSE "nil"
           /\ built' = hs.entries
           /\ produced' = produced \cup Origins(hs.entries)
    /\ prior' = cache
    /\ opName' = "RegisterHosts"
    /\ snap' = s
    /\ nHosts' = nHosts + 1
    /\ UNCHANGED <<task, agentArg, loaded, nTasks, applied>>

----------------------------------------------------------------------------
(* Tasks (state.Task) and the helpers of the task reconciler *)

LowerChars == <<"a","b","c","d","e","f","g","h","i","j","k","l","m",
                "n","o","p","q","r","s","t","u","v","w","x","y","z">>
UpperChars == <<"A","B","C","D","E","F","G","H","I","J","K","L","M",
                "N","O","P","Q","R","S","T","U","V","W","X","Y","Z">>

ToLowerChar(c) ==
    IF c \in Range(UpperChars)
    THEN LowerChars[CHOOSE i \in 1..Len(UpperChars) : UpperChars[i] = c]
    ELSE c

\* strings.ToLower
ToLower(str) == [i \in 1..Len(str) |-> ToLowerChar(str[i])]

\* strings.Contains
Contains(str, sub) ==
    \E i \in 0..(Len(str) - Len(sub)) : SubSeq(str, i + 1, i + Len(sub)) = sub

\* strings.Split(str, ","): the pieces between the commas; one empty piece
\* for the empty string
RECURSIVE SplitFrom(_, _)
SplitFrom(str, piece) ==
    IF Len(str) = 0 THEN <<piece>>
    ELSE IF <<Head(str)>> = Comma THEN <<piece>> \o SplitFrom(Tail(str), <<>>)
    ELSE SplitFrom(Tail(str), Append(piece, Head(str)))

Split(str) == SplitFrom(str, <<>>)

\* The characters a registry name may hold
NameChars == Range(LowerChars) \cup Range(UpperChars) \cup Range(DigitChars) \cup {"-"}

\* cleanName: every character outside the registry's set becomes the separator
RECURSIVE cleanName(_, _)
cleanName(raw, separator) ==
    IF Len(raw) = 0 THEN <<>>
    ELSE (IF Head(raw) \in NameChars THEN <<Head(raw)>> ELSE separator)
         \o cleanName(Tail(raw), separator)

\* Task.Label: the value of the first label with the key, or an error
HasLabel(labels, key) == \E i \in 1..Len(labels) : labels[i].Key = key

Label(labels, key) ==
    labels[CHOOSE i \in 1..Len(labels) :
             /\ labels[i].Key = key
             /\ \A j \in 1..(i - 1) : labels[j].Key # key].Value

\* DiscoveryPort.Label: the value of the first label with the key, or ""
PortLabel(labels, key) == IF HasLabel(labels, key) THEN Label(labels, key) ELSE <<>>

\* Task.IP: the first address the task has among the sources, in their order
RECURSIVE IP(_, _)
IP(t, srcs) ==
    IF Len(srcs) = 0 THEN <<>>
    ELSE IF Head(srcs) \in DOMAIN t.IPs /\ Len(t.IPs[Head(srcs)]) > 0
         THEN t.IPs[Head(srcs)]
         ELSE IP(t, Tail(srcs))

\* TaskPrivilege.Allowed
Allowed(tname) == tname \in m.AllowList

\* GetCheck: the check descriptor is built from the task and the CheckVar
GetCheck(t, checkVar) == checkVar

\* order: the order in which range visits the keys of taskTag
RECURSIVE buildTagsFrom(_, _, _, _, _, _)
buildTagsFrom(result, tnameLower, taskTag, order, i, j) ==
    IF i > Len(order) THEN result
    ELSE IF j > Len(taskTag[order[i]])
         THEN buildTagsFrom(result, tnameLower, taskTag, order, i + 1, 1)
         ELSE LET tag == taskTag[order[i]][j]
              IN  IF Contains(tnameLower, order[i]) /\ ~sliceContainsString(result, tag)
                  THEN buildTagsFrom(Append(result, tag), tnameLower, taskTag, order, i, j + 1)
                  ELSE buildTagsFrom(result, tnameLower, taskTag, order, i, j + 1)

\* buildRegisterTaskTags matching the patterns against the name as it is given
buildRegisterTaskTags_NoLower(taskName, startingTags, taskTag, order) ==
    buildTagsFrom(startingTags, taskName, taskTag, order, 1, 1)

buildRegisterTaskTags(taskName, startingTags, taskTag, order) ==
    buildTagsFrom(startingTags, ToLower(taskName), taskTag, order, 1, 1)

\* The orders in which range may visit the keys of a map
Orders(map) ==
    {o \in [1..Cardinality(DOMAIN map) -> DOMAIN map] :
        \A i, j \in DOMAIN o : i # j => o[i] # o[j]}

----------------------------------------------------------------------------
(* Task reconciler *)

\* Slices.  A slice is [ptr, len]: ptr is the index of its backing array in
\* the heap (0 for a slice without one) and the capacity is the length of that
\* array.  Slices with the same ptr share their elements.
Cap(heap, sl) == IF sl.ptr = 0 THEN 0 ELSE Len(heap[sl.ptr])

Read(heap, sl) == IF sl.ptr = 0 THEN <<>> ELSE SubSeq(heap[sl.ptr], 1, sl.len)

\* The capacity append allocates when oldCap is too small for newLen elements
growCap(oldCap, newLen) == IF newLen > 2 * oldCap THEN newLen ELSE 2 * oldCap

\* append(sl, xs...): [heap, slice].  The elements are written into the
\* backing array of sl when its capacity suffices, into a new array otherwise.
GoAppend(heap, sl, xs) ==
    IF Len(xs) = 0 THEN [heap |-> heap, slice |-> sl]
    ELSE IF sl.len + Len(xs) <= Cap(heap, sl)
    THEN [heap |-> [heap EXCEPT ![sl.ptr] =
                      [k \in 1..Len(@) |->
                         IF k > sl.len /\ k <= sl.len + Len(xs) THEN xs[k - sl.len]
                         ELSE @[k]]],
          slice |-> [ptr |-> sl.ptr, len |-> sl.len + Len(xs)]]
    ELSE [heap |-> Append(heap,
                          [k \in 1..growCap(Cap(heap, sl), sl.len + Len(xs)) |->
                             IF k <= sl.len THEN heap[sl.ptr][k]
                             ELSE IF k <= sl.len + Len(xs) THEN xs[k - sl.len]
                             ELSE <<>>]),
          slice |-> [ptr |-> Len(heap) + 1, len |-> sl.len + Len(xs)]]

\* The capacity of a slice of capacity c and length n after k appends of one
\* element each
RECURSIVE capAfter(_, _, _)
capAfter(c, n, k) ==
    IF k = 0 THEN c
    ELSE capAfter(IF n + 1 > c THEN growCap(c, n + 1) ELSE c, n + 1, k - 1)

\* The capacity of the slice buildRegisterTaskTags returns: startingTags has
\* no spare capacity (strings.Split, []string{}), and every tag it lacks is
\* appended on its own
tagsCap(startingTags, result) ==
    capAfter(Len(startingTags), Len(startingTags), Len(result) - Len(startingTags))

\* The entries of the loop over DiscoveryInfo.Ports.DiscoveryPorts, from the
\* port at index key on, in the order the loop registers them.  ps is
\* [heap, entries]; tags is the slice of the base tags.
RECURSIVE portServices(_, _, _, _, _, _, _)
portServices(ps, t, agent, tname, address, tags, key) ==
    IF key >= Len(t.DiscoveryInfo.Ports) THEN ps
    ELSE LET discoveryPort == t.DiscoveryInfo.Ports[key + 1]
             serviceName == discoveryPort.Name
             servicePort == Itoa(discoveryPort.Number)
             pl == PortLabel(discoveryPort.Labels, "tags")
             porttags == IF pl # <<>> THEN Split(pl) ELSE <<>>
             first ==
                 IF key = 0
                 THEN << [svc |-> [ID |-> MesosConsul \o Colon \o agent \o Colon \o tname
                                            \o Colon \o servicePort,
                                   Name |-> tname,
                                   Port |-> toPort(servicePort),
                                   Address |-> address,
                                   Tags |-> Read(ps.heap, tags),
                                   Check |-> GetCheck(t, [Host |-> toIP(address),
                                                          Port |-> servicePort]),
                                   Agent |-> toIP(agent)],
                          key |-> key, what |-> "primary", of |-> t.ID,
                          slice |-> tags] >>
                 ELSE <<>>
             withName == GoAppend(ps.heap, tags, <<serviceName>>)
             withPort == GoAppend(withName.heap, withName.slice, porttags)
             named ==
                 IF discoveryPort.Name # <<>>
                 THEN << [svc |-> [ID |-> m.ServiceIdPrefix \o Colon \o agent \o Colon \o tname
                                            \o Colon \o address \o Colon
                                            \o Itoa(discoveryPort.Number),
                                   Name |-> cleanName(tname \o Dash \o discoveryPort.Name,
                                                      m.Separator),
                                   Port |-> toPort(servicePort),
                                   Address |-> address,
                                   Tags |-> Read(withPort.heap, withPort.slice),
                                   Check |-> GetCheck(t, [Host |-> toIP(address),
                                                          Port |-> servicePort]),
                                   Agent |-> toIP(agent)],
                          key |-> key, what |-> "named", of |-> t.ID,
                          slice |-> withPort.slice] >>
                 ELSE <<>>
         IN  portServices([heap |-> IF discoveryPort.Name # <<>> THEN withPort.heap
                                    ELSE ps.heap,
                           entries |-> ps.entries \o first \o named],
                          t, agent, tname, address, tags, key + 1)

\* The entries with their tags as they read when registerTask returns
AsReturned(ps) ==
    [i \in 1..Len(ps.entries) |->
        [svc |-> ps.entries[i].svc, key |-> ps.entries[i].key,
         what |-> ps.entries[i].what, of |-> ps.entries[i].of,
         now |-> Read(ps.heap, ps.entries[i].slice)]]

\* The entries registerTask registers for an admitted task, in order.  tags is
\* the value of the base tags and capacity the capacity of their slice.
taskServices(t, agent, tname, address, tags, capacity) ==
    IF t.DiscoveryInfo.Name # <<>>
    THEN AsReturned(
           portServices([heap |-> << [k \in 1..capacity |->
                                        IF k <= Len(tags) THEN tags[k] ELSE <<>>] >>,
                         entries |-> <<>>],
                        t, agent, tname, address, [ptr |-> 1, len |-> Len(tags)], 0))
    ELSE << [svc |-> [ID |-> m.ServiceIdPrefix \o Colon \o agent \o Dash \o tname
                               \o Colon \o address,
                      Name |-> tname,
                      Port |-> 0,
                      Address |-> address,
                      Tags |-> tags,
                      Check |-> GetCheck(t, [Host |-> toIP(address), Port |-> <<>>]),
                      Agent |-> toIP(agent)],
             key |-> 0, what |-> "single", of |-> t.ID, now |-> tags] >>

\* registerTask passing the base-name entries to registerHost
RECURSIVE registerEach_CacheDiff(_, _, _)
registerEach_CacheDiff(st, entries, i) ==
    IF i > Len(entries) \/ st.panic THEN st
    ELSE registerEach_CacheDiff(
           IF entries[i].what \in {"single", "primary"}
           THEN registerHost(st, entries[i].svc)
           ELSE Register(st, entries[i].svc),
           entries, i + 1)

\* m.Registry.Register of each entry in turn
RECURSIVE registerEach(_, _, _)
registerEach(st, entries, i) ==
    IF i > Len(entries) \/ st.panic THEN st
    ELSE registerEach(Register(st, entries[i].svc), entries, i + 1)

taskName(t) ==
    IF HasLabel(t.Labels, "overrideTaskName")
    THEN cleanName(Label(t.Labels, "overrideTaskName"), m.Separator)
    ELSE cleanName(t.ID, m.Separator)

taskTags(t, tname, order) ==
    buildRegisterTaskTags(tname,
                          IF HasLabel(t.Labels, "tags") THEN Split(Label(t.Labels, "tags"))
                          ELSE <<>>,
                          m.taskTag, order)

\* What registerTask returns: [err, st, entries]
Returned(st, entries) ==
    [err |-> IF st.panic THEN "panic" ELSE "nil", st |-> st, entries |-> entries]

Failed(err, st) == [err |-> err, st |-> st, entries |-> <<>>]

\* The entries registered one after the other
RegisteredAll(st, entries) == Returned(registerEach(st, entries, 1), entries)

\* The tags label of the task, split
labelTags(t) ==
    IF HasLabel(t.Labels, "tags") THEN Split(Label(t.Labels, "tags")) ELSE <<>>

\* registerTask from the address resolution on
registerAdmitted(t, agent, order, tname, st) ==
    RegisteredAll(st, taskServices(t, agent, tname, IP(t, m.IpOrder),
                                   taskTags(t, tname, order),
                                   tagsCap(labelTags(t), taskTags(t, tname, order))))

\* TaskPrivilege.Allowed(tname), as registerTask calls it
AskAllowed(tname) == Logged(Fresh, Call("Allowed", tname, NoService, NotCached))

\* registerTask asking the privilege checker before it looks for the consul label
registerTaskRun_PrivilegeFirst(t, agent, order) ==
    IF m.TaskPrivilege = "nil" THEN Failed("panic", [Fresh EXCEPT !.panic = TRUE])
    ELSE IF ~Allowed(taskName(t)) THEN Failed(ErrNotAllowed, AskAllowed(taskName(t)))
    ELSE IF HasLabel(t.Labels, "consul") THEN Failed(ErrConsulLabel, AskAllowed(taskName(t)))
    ELSE registerAdmitted(t, agent, order, taskName(t), AskAllowed(taskName(t)))

\* registerTask asking the privilege checker about the task's own name when the
\* task carries overrideTaskName
registerTaskRun_IgnoreOverride(t, agent, order) ==
    IF HasLabel(t.Labels, "consul") THEN Failed(ErrConsulLabel, Fresh)
    ELSE IF m.TaskPrivilege = "nil" THEN Failed("panic", [Fresh EXCEPT !.panic = TRUE])
    ELSE IF ~Allowed(cleanName(t.ID, m.Separator))
         THEN Failed(ErrNotAllowed, AskAllowed(cleanName(t.ID, m.Separator)))
         ELSE registerAdmitted(t, agent, order, taskName(t),
                               AskAllowed(cleanName(t.ID, m.Separator)))

\* registerTask
registerTaskRun(t, agent, order) ==
    IF HasLabel(t.Labels, "consul") THEN Failed(ErrConsulLabel, Fresh)
    ELSE IF m.TaskPrivilege = "nil" THEN Failed("panic", [Fresh EXCEPT !.panic = TRUE])
    ELSE IF ~Allowed(taskName(t)) THEN Failed(ErrNotAllowed, AskAllowed(taskName(t)))
    ELSE registerAdmitted(t, agent, order, taskName(t), AskAllowed(taskName(t)))

registerTask(t, agent) ==
    /\ Alive
    /\ nTasks < MaxTaskCalls
    /\ \E order \in Orders(m.taskTag) :
         \E r \in {registerTaskRun(t, agent, order)} :
             /\ cache' = r.st.cache
             /\ calls' = r.st.calls
             /\ ret' = r.err
             /\ built' = r.entries
             /\ produced' = produced \cup Origins(r.entries)
    /\ prior' = cache
    /\ opName' = "registerTask"
    /\ task' = t
    /\ agentArg' = agent
    /\ nTasks' = nTasks + 1
    /\ UNCHANGED <<m, snap, loaded, nHosts, applied>>

----------------------------------------------------------------------------
(* The tasks and agents registerTask is given *)

Str_d == <<"d">>
Str_h == <<"h">>
TaskAddressHost == Str_10_0_0 \o <<"1">>
TaskAddressNet == <<"1","7","2",".","1","7",".","0",".","2">>

KV(k, v) == [Key |-> k, Value |-> v]

\* The i-th discovery port of a task: named and unnamed ports alternate; the
\* first port is named when named = 1 and unnamed when named = 0.  With
\* named = 2 every port has a name and no label.
DiscoveryPort(named, i) ==
    IF named = 2
    THEN [Number |-> 80 + i, Name |-> Str_h \o Itoa(i), Labels |-> <<>>]
    ELSE IF (i + named) % 2 = 0
    THEN [Number |-> 80 + i, Name |-> Str_h \o Itoa(i),
          Labels |-> <<KV("tags", <<"q",",","r">>)>>]
    ELSE [Number |-> 80 + i, Name |-> <<>>, Labels |-> <<>>]

PortLists ==
    { [i \in 1..n |-> DiscoveryPort(named, i)] : n \in 0..MaxPorts, named \in {0, 1, 2} }

TaskIPs == [src \in {"host", "netinfo"} |->
              IF src = "host" THEN TaskAddressHost ELSE TaskAddressNet]

TaskIDs == {Str_a, <<"a","/","B">>, Str_z}

LabelLists ==
    { <<>>,
      <<KV("consul", <<>>)>>,
      <<KV("overrideTaskName", Str_a)>>,
      <<KV("overrideTaskName", Str_z)>>,
      <<KV("tags", <<"x",",","q">>)>>,
      <<KV("tags", <<"x",",","q">>), KV("consul", <<"1">>)>> }

\* Tasks of every identifier and label list without discovery data, and tasks
\* of every discovery name and port list, with and without the consul label
Tasks ==
    { [ID |-> id, Labels |-> labels,
       DiscoveryInfo |-> [Name |-> <<>>, Ports |-> <<>>], IPs |-> TaskIPs] :
        id \in TaskIDs, labels \in LabelLists }
    \cup
    { [ID |-> Str_a, Labels |-> labels,
       DiscoveryInfo |-> [Name |-> name, Ports |-> ports], IPs |-> TaskIPs] :
        labels \in { <<KV("tags", <<"x",",","q">>)>>,
                     <<KV("tags", <<"x",",","q">>), KV("consul", <<"1">>)>> },
        name \in {<<>>, Str_d}, ports \in PortLists }

AgentAddresses == {Str_10_0_0 \o <<"1">>, <<"h","2">>}

----------------------------------------------------------------------------
(* LoadCache *)

Reverse(sq) == [i \in 1..Len(sq) |-> sq[Len(sq) + 1 - i]]

ForeignID == <<"o","t","h","e","r",":","x">>

\* What the registry holds when the program starts: the node entries an
\* earlier run registered for snapshot s with the suffixes serviceTags, and
\* an entry another program registered.
Catalog(serviceTags, s) ==
    LET own == {[ID |-> SlaveService(s.Slaves[i]).ID,
                 Tags |-> agentTagsOf(serviceTags, <<AgentRole, FollowerRole>>)] :
                    i \in 1..Len(s.Slaves)}
               \cup
               {[ID |-> MasterService(s.Masters[i]).ID,
                 Tags |-> IF s.Masters[i].IsLeader
                          THEN agentTagsOf(serviceTags, <<LeaderRole, MasterRole>>)
                          ELSE agentTagsOf(serviceTags, <<MasterRole>>)] :
                    i \in 1..Len(s.Masters)}
        all == own \cup {[ID |-> ForeignID, Tags |-> <<>>]}
    IN  [id \in {e.ID : e \in all} |-> (CHOOSE e \in all : e.ID = id).Tags]

Catalogs ==
    { Catalog(serviceTags, s) :
        serviceTags \in {m.ServiceTags, Reverse(m.ServiceTags)},
        s \in {x \in Snapshots : Len(x.Slaves) = MaxSlaves /\ Len(x.Masters) = MaxMasters
                                 /\ x.Masters[1].IsLeader} }

\* LoadCache runs once, when the program starts, before the first pass
LoadCache ==
    /\ Alive
    /\ ~loaded
    /\ nHosts = 0
    /\ nTasks = 0
    /\ \E catalog \in Catalogs :
         IF m.Registry = "nil"
         THEN /\ ret' = "panic"
              /\ UNCHANGED <<cache, calls>>
         ELSE /\ cache' = CacheLoad(catalog, m.ServiceIdPrefix)
              /\ calls' = <<Call("CacheLoad", m.ServiceIdPrefix, NoService, NotCached)>>
              /\ ret' = "nil"
    /\ loaded' = TRUE
    /\ opName' = "LoadCache"
    /\ prior' = cache
    /\ built' = <<>>
    /\ UNCHANGED <<m, task, agentArg, snap, produced, nHosts, nTasks, applied>>

----------------------------------------------------------------------------
(* Specifications *)

NoCache == [id \in {} |-> <<>>]

NoTask ==
    [ID |-> <<>>, Labels |-> <<>>, DiscoveryInfo |-> [Name |-> <<>>, Ports |-> <<>>],
     IPs |-> TaskIPs]

NotApplied == [fn |-> "none", args |-> <<>>, result |-> <<>>]

\* The state after construction, but for the Mesos object
Constructed ==
    /\ cache = NoCache
    /\ calls = <<>>
    /\ opName = "new"
    /\ task = NoTask
    /\ agentArg = <<>>
    /\ ret = "nil"
    /\ snap = NoSnapshot
    /\ loaded = FALSE
    /\ prior = NoCache
    /\ built = <<>>
    /\ produced = {}
    /\ nHosts = 0
    /\ nTasks = 0
    /\ applied = NotApplied

Init ==
    /\ m \in Configs
    /\ Constructed

NextHosts ==
    \/ LoadCache
    \/ \E s \in Snapshots : RegisterHosts(s)

SpecHosts == Init /\ [][NextHosts]_vars

NextTask == \E t \in Tasks, agent \in AgentAddresses : registerTask(t, agent)

SpecTask == Init /\ [][NextTask]_vars

Next == NextHosts \/ NextTask

Spec == Init /\ [][Next]_vars

----------------------------------------------------------------------------
(* The tag functions agentTags and buildRegisterTaskTags on their own *)

\* The sequences over a set of at most n elements
SeqsUpTo(S, n) == UNION {[1..k -> S] : k \in 0..n}

\* Suffix lists (the ServiceTags flag), repeated suffixes included
SuffixLists == SeqsUpTo({Str_t, Str_u}, MaxSuffixes)

\* Role lists: the ones RegisterHosts passes, and every other short list
RoleLists == SeqsUpTo({AgentRole, FollowerRole, LeaderRole, MasterRole}, MaxRoles)

Str_q == <<"q">>
Str_B == <<"B">>
Str_a_B == <<"a","-","B">>

\* Rule tables: none, two rules that share a tag, a pattern with a capital
\* letter, a rule that names a tag twice
RuleTables ==
    { NoRules,
      Rules,
      [pattern \in {Str_a, Str_B} |-> IF pattern = Str_a THEN <<Str_x>> ELSE <<Str_z>>],
      [pattern \in {Str_a} |-> <<Str_y, Str_y, Str_x>>] }

\* Starting tags, repeated tags included
StartingLists == SeqsUpTo({Str_x, Str_y, Str_q}, MaxStartTags)

TaskNames == {Str_a, Str_a_B, Str_z}

TagConfig(serviceTags, taskTag) ==
    [ServiceIdPrefix |-> Str_p, ServiceName |-> ServiceNameMesos,
     Separator |-> Dash, ServiceTags |-> serviceTags, taskTag |-> taskTag,
     IpOrder |-> <<"host">>, AllowList |-> {Str_a, Str_web},
     Registry |-> "set", TaskPrivilege |-> "set", Agents |-> NoAgents]

TagConfigs ==
    {TagConfig(serviceTags, NoRules) : serviceTags \in SuffixLists}
    \cup {TagConfig(<<>>, taskTag) : taskTag \in RuleTables}

InitTags ==
    /\ m \in TagConfigs
    /\ Constructed

Frame == UNCHANGED <<m, cache, calls, opName, task, agentArg, ret, snap, loaded, prior,
                     built, produced, nHosts, nTasks>>

ApplyAgentTags(ts) ==
    /\ applied' = [fn |-> "agentTags", args |-> <<ts>>, result |-> agentTags(ts)]
    /\ Frame

ApplyBuildRegisterTaskTags(name, startingTags) ==
    /\ \E order \in Orders(m.taskTag) :
         applied' = [fn |-> "buildRegisterTaskTags",
                     args |-> <<name, startingTags, m.taskTag>>,
                     result |-> buildRegisterTaskTags(name, startingTags,
                                                      m.taskTag, order)]
    /\ Frame

NextTags ==
    \/ \E ts \in RoleLists : ApplyAgentTags(ts)
    \/ \E name \in TaskNames, startingTags \in StartingLists :
         ApplyBuildRegisterTaskTags(name, startingTags)

SpecTags == InitTags /\ [][NextTags]_vars

----------------------------------------------------------------------------
(* Properties *)

RegistryFns == {"Register", "CacheMark", "CacheDelete", "CacheLookup", "CacheLoad"}

\* The name a task is registered under: the cleaned overrideTaskName label
\* value when the task has the label, the cleaned task ID otherwise
EffectiveName(t) ==
    IF \E i \in 1..Len(t.Labels) : t.Labels[i].Key = "overrideTaskName"
    THEN cleanName(Label(t.Labels, "overrideTaskName"), m.Separator)
    ELSE cleanName(t.ID, m.Separator)

HasConsulLabel(t) == \E i \in 1..Len(t.Labels) : t.Labels[i].Key = "consul"

SameTagSet(a, b) == Range(a) = Range(b)

\* The registerHost invocations of the latest operation: each starts with its
\* CacheLookup and holds the calls up to the next CacheLookup
Lookups == {i \in 1..Len(calls) : calls[i].fn = "CacheLookup"}

InvocationEnd(i) ==
    IF \E j \in Lookups : j > i
    THEN (CHOOSE j \in Lookups : j > i /\ \A k \in Lookups : k > i => j <= k) - 1
    ELSE Len(calls)

\* The mutating calls of the invocation that starts at call i
Invocation(i) == SubSeq(calls, i + 1, InvocationEnd(i))

\* C1: a task with a "consul" label, whatever its value and whatever else the
\* task carries, is refused with "Application with consul label"; no
\* collaborator is called (neither the privilege checker nor the registry) and
\* the cache stays as it was, also when no collaborator is set.
C1_ConsulLabelRefused ==
    (opName = "registerTask" /\ HasConsulLabel(task)) =>
        /\ ret = ErrConsulLabel
        /\ calls = <<>>
        /\ cache = prior

C1_Witness ==
    /\ opName = "registerTask"
    /\ HasConsulLabel(task)
    /\ Label(task.Labels, "consul") = <<>>
    /\ m.TaskPrivilege = "nil"
    /\ m.Registry = "nil"
    /\ EffectiveName(task) \notin m.AllowList
    /\ ret = ErrConsulLabel

\* C2: a task without the "consul" label whose effective name the privilege
\* checker rejects is refused with "Task not allowed to be registered"; no
\* registry call is made and the cache stays as it was.
C2_NotAllowedRefused ==
    (/\ opName = "registerTask"
     /\ ~HasConsulLabel(task)
     /\ m.TaskPrivilege = "set"
     /\ EffectiveName(task) \notin m.AllowList) =>
        /\ ret = ErrNotAllowed
        /\ \A i \in 1..Len(calls) : calls[i].fn \notin RegistryFns
        /\ cache = prior

C2_Witness ==
    /\ opName = "registerTask"
    /\ ~HasConsulLabel(task)
    /\ \E i \in 1..Len(task.Labels) : task.Labels[i].Key = "overrideTaskName"
    /\ cleanName(task.ID, m.Separator) \in m.AllowList
    /\ EffectiveName(task) \notin m.AllowList
    /\ ret = ErrNotAllowed
    /\ DOMAIN cache # {}

\* C3: registerHost on an entry whose identifier is cached with the same tag
\* set, in any order, makes exactly one CacheMark call for the identifier and
\* no Register and no CacheDelete call.
C3_SameTagsConfirmed ==
    opName = "RegisterHosts" =>
        \A i \in Lookups :
            (calls[i].h.found /\ SameTagSet(calls[i].h.Tags, calls[i].svc.Tags)) =>
                /\ Len(Invocation(i)) = 1
                /\ Invocation(i)[1].fn = "CacheMark"
                /\ Invocation(i)[1].ID = calls[i].ID

C3_Witness ==
    /\ opName = "RegisterHosts"
    /\ \E i \in Lookups :
         /\ calls[i].h.found
         /\ SameTagSet(calls[i].h.Tags, calls[i].svc.Tags)
         /\ calls[i].h.Tags # calls[i].svc.Tags
         /\ Invocation(i)[1].fn = "CacheMark"

\* C4: registerHost on an entry whose identifier is cached with a different
\* tag set makes exactly one CacheDelete call for the identifier, then exactly
\* one Register call of the entry, and no CacheMark call.
C4_ChangedTagsReplaced ==
    opName = "RegisterHosts" =>
        \A i \in Lookups :
            (calls[i].h.found /\ ~SameTagSet(calls[i].h.Tags, calls[i].svc.Tags)) =>
                /\ Len(Invocation(i)) = 2
                /\ Invocation(i)[1].fn = "CacheDelete"
                /\ Invocation(i)[1].ID = calls[i].ID
                /\ Invocation(i)[2].fn = "Register"
                /\ Invocation(i)[2].svc = calls[i].svc

C4_Witness ==
    /\ opName = "RegisterHosts"
    /\ \E i \in Lookups :
         /\ calls[i].h.found
         /\ ~SameTagSet(calls[i].h.Tags, calls[i].svc.Tags)
         /\ Invocation(i)[1].fn = "CacheDelete"
         /\ Invocation(i)[2].fn = "Register"

\* C5: registerHost on an entry whose identifier is not cached makes exactly
\* one Register call of the entry and no CacheMark and no CacheDelete call.
C5_UnknownRegistered ==
    opName = "RegisterHosts" =>
        \A i \in Lookups :
            ~calls[i].h.found =>
                /\ Len(Invocation(i)) = 1
                /\ Invocation(i)[1].fn = "Register"
                /\ Invocation(i)[1].svc = calls[i].svc

C5_Witness ==
    /\ opName = "RegisterHosts"
    /\ \E i \in Lookups :
         /\ ~calls[i].h.found
         /\ Invocation(i)[1].fn = "Register"
         /\ calls[i].ID \in DOMAIN cache

\* The Register calls of the latest operation, in order
IsRegister(c) == c.fn = "Register"

RegisterCalls == SelectSeq(calls, IsRegister)

BaseEntry(e) == e.what \in {"single", "primary"}

Admitted(t) ==
    /\ ~HasConsulLabel(t)
    /\ m.TaskPrivilege = "set"
    /\ EffectiveName(t) \in m.AllowList

\* The base tags of a task: the tags label's pieces, then the tags of the
\* matching rules, for some order of the rule table
BaseTags(t) ==
    { buildRegisterTaskTags(EffectiveName(t),
                            IF HasLabel(t.Labels, "tags")
                            THEN Split(Label(t.Labels, "tags")) ELSE <<>>,
                            m.taskTag, order) : order \in Orders(m.taskTag) }

\* C7, as claimed: an admitted task that declares no discovery ports, whatever
\* its discovery name, gets exactly one entry: base name, resolved address,
\* port 0, base tags; and registerTask returns no error.
C7_NoPortsOneEntry ==
    (/\ opName = "registerTask"
     /\ Admitted(task)
     /\ Len(task.DiscoveryInfo.Ports) = 0) =>
        /\ ret = "nil"
        /\ Len(RegisterCalls) = 1
        /\ RegisterCalls[1].svc.Name = EffectiveName(task)
        /\ RegisterCalls[1].svc.Address = IP(task, m.IpOrder)
        /\ RegisterCalls[1].svc.Port = 0
        /\ RegisterCalls[1].svc.Tags \in BaseTags(task)

\* The names and ports C8 claims for a task's entries: for each declared port
\* in order, the primary entry if the port is the first, then the named entry
\* if the port has a name
RECURSIVE ClaimedFanOut(_, _, _)
ClaimedFanOut(tname, ports, i) ==
    IF i > Len(ports) THEN <<>>
    ELSE (IF i = 1 THEN <<[Name |-> tname, Port |-> ports[i].Number]>> ELSE <<>>)
         \o (IF ports[i].Name # <<>>
             THEN <<[Name |-> tname \o Dash \o ports[i].Name, Port |-> ports[i].Number]>>
             ELSE <<>>)
         \o ClaimedFanOut(tname, ports, i + 1)

\* C8, as claimed: an admitted task that declares discovery ports, whatever its
\* discovery name, gets one primary entry with the base name and the first
\* port's number and one entry per named port, in declared port order.
C8_PortsFanOut ==
    (/\ opName = "registerTask"
     /\ Admitted(task)
     /\ Len(task.DiscoveryInfo.Ports) >= 1) =>
        [i \in 1..Len(RegisterCalls) |->
            [Name |-> RegisterCalls[i].svc.Name, Port |-> RegisterCalls[i].svc.Port]]
          = ClaimedFanOut(EffectiveName(task), task.DiscoveryInfo.Ports, 1)

\* What an entry was built for: a worker, a control-plane node or a task
OriginClass(e) == IF e.what \in {"worker", "master"} THEN e.what ELSE "task"

\* C9, as claimed: entries built for two distinct nodes or tasks, and entries
\* built for two distinct ports of one task, never carry the same identifier.
C9_DistinctIdentifiers ==
    /\ \A e1, e2 \in produced :
         (OriginClass(e1) # OriginClass(e2) \/ e1.of # e2.of) => e1.ID # e2.ID
    /\ \A i, j \in 1..Len(built) :
         built[i].key # built[j].key => built[i].svc.ID # built[j].svc.ID

\* C10, as claimed: every entry that is registered has an identifier that
\* starts with the configured ServiceIdPrefix and a colon.
C10_IdentifiersPrefixed ==
    \A j \in 1..Len(calls) :
        calls[j].fn = "Register" => HasPrefix(calls[j].ID, m.ServiceIdPrefix \o Colon)

\* The tags derived from a list of roles: the roles themselves when no suffix
\* is configured, otherwise every "role.suffix"
RoleTags(roles) ==
    IF m.ServiceTags = <<>> THEN Range(roles)
    ELSE {r \o Dot \o sfx : r \in Range(roles), sfx \in Range(m.ServiceTags)}

LeaderDerived(tag) == tag = LeaderRole \/ HasPrefix(tag, LeaderRole \o Dot)

\* The entry RegisterHosts built for the i-th control-plane node of the snapshot
MasterEntry(i) == built[Len(snap.Slaves) + i]

\* C11: RegisterHosts builds one entry per worker and one per control-plane
\* node of the snapshot, in that order.  A worker's tags are the ones derived
\* from {agent, follower}; a control-plane node's tags are the ones derived
\* from {leader, master} when it is the leader and from {master} otherwise; no
\* worker entry and no non-leader entry carries a leader-derived tag.
C11_HostEntriesByRole ==
    (opName = "RegisterHosts" /\ ret = "nil") =>
        /\ Len(built) = Len(snap.Slaves) + Len(snap.Masters)
        /\ \A i \in 1..Len(snap.Slaves) :
             /\ built[i].what = "worker"
             /\ built[i].of = snap.Slaves[i].ID
             /\ Range(built[i].svc.Tags) = RoleTags(<<AgentRole, FollowerRole>>)
             /\ \A k \in 1..Len(built[i].svc.Tags) : ~LeaderDerived(built[i].svc.Tags[k])
        /\ \A i \in 1..Len(snap.Masters) :
             /\ MasterEntry(i).what = "master"
             /\ MasterEntry(i).svc.Address = snap.Masters[i].Ip
             /\ Range(MasterEntry(i).svc.Tags) =
                    RoleTags(IF snap.Masters[i].IsLeader THEN <<LeaderRole, MasterRole>>
                             ELSE <<MasterRole>>)
             /\ snap.Masters[i].IsLeader <=>
                    \E k \in 1..Len(MasterEntry(i).svc.Tags) :
                        LeaderDerived(MasterEntry(i).svc.Tags[k])

C11_Witness ==
    /\ opName = "RegisterHosts"
    /\ ret = "nil"
    /\ m.ServiceTags # <<>>
    /\ Len(snap.Slaves) >= 1
    /\ Len(snap.Masters) >= 2
    /\ \E i, j \in 1..Len(snap.Masters) :
         /\ snap.Masters[i].IsLeader
         /\ ~snap.Masters[j].IsLeader
         /\ \E k \in 1..Len(MasterEntry(i).svc.Tags) :
              LeaderDerived(MasterEntry(i).svc.Tags[k])
         /\ Range(MasterEntry(j).svc.Tags) = RoleTags(<<MasterRole>>)

\* The three prior states of the cache a registerHost invocation can meet
PriorAbsent(i) == ~calls[i].h.found
PriorSameTags(i) == calls[i].h.found /\ SameTagSet(calls[i].h.Tags, calls[i].svc.Tags)
PriorOtherTags(i) == calls[i].h.found /\ ~SameTagSet(calls[i].h.Tags, calls[i].svc.Tags)

\* C12: after registerHost(s), whatever the cache held for s.ID before (nothing,
\* the same tag set, another tag set), the cache holds s.ID with the tag set of
\* s.  The identifiers of one pass are distinct, so the entry is still as the
\* invocation left it when the pass ends.
C12_FinalStateReflectsEntry ==
    (opName = "RegisterHosts" /\ ret = "nil") =>
        \A i \in Lookups :
            /\ calls[i].ID \in DOMAIN cache
            /\ SameTagSet(cache[calls[i].ID], calls[i].svc.Tags)

C12_Witness ==
    /\ opName = "RegisterHosts"
    /\ ret = "nil"
    /\ \E i, j, k \in Lookups :
         /\ PriorAbsent(i)
         /\ PriorSameTags(j)
         /\ PriorOtherTags(k)
         /\ \A l \in {i, j, k} : SameTagSet(cache[calls[l].ID], calls[l].svc.Tags)

\* The identifiers of a list of built entries, in order
IDs(es) == [i \in 1..Len(es) |-> es[i].svc.ID]

\* How many CacheMark calls a list of calls holds for an identifier
MarksOf(cs, id) ==
    Cardinality({j \in 1..Len(cs) : cs[j].fn = "CacheMark" /\ cs[j].ID = id})

\* A step that is a pass of RegisterHosts right after a pass that returned, on
\* the same snapshot (the configuration of m never changes)
SecondPassSameSnapshot ==
    /\ opName = "RegisterHosts"
    /\ ret = "nil"
    /\ opName' = "RegisterHosts"
    /\ nHosts' = nHosts + 1
    /\ snap' = snap

\* C13: a pass of RegisterHosts that follows a pass on the same snapshot builds
\* the same identifiers in the same order, makes no Register and no CacheDelete
\* call, and makes exactly one CacheMark call for the entry of each node.
C13_SecondPassIdempotent ==
    [][SecondPassSameSnapshot =>
          /\ ret' = "nil"
          /\ IDs(built') = IDs(built)
          /\ \A j \in 1..Len(calls') : calls'[j].fn \notin {"Register", "CacheDelete"}
          /\ \A i \in 1..Len(built') : MarksOf(calls', built'[i].svc.ID) = 1]_vars

\* The state after the second of two passes on one snapshot with workers, a
\* leader and a non-leader: every identifier ever built is one of this pass,
\* and this pass only looked entries up and confirmed them
C13_Witness ==
    /\ opName = "RegisterHosts"
    /\ ret = "nil"
    /\ nHosts = 2
    /\ ~loaded
    /\ Len(snap.Slaves) >= 1
    /\ Len(snap.Masters) >= 2
    /\ \E i \in 1..Len(snap.Masters) : snap.Masters[i].IsLeader
    /\ produced = Origins(built)
    /\ Len(calls) = 2 * Len(built)
    /\ \A i \in 1..Len(built) : MarksOf(calls, built[i].svc.ID) = 1

\* The worker identifiers of a snapshot
WorkerIDs(s) == {s.Slaves[i].ID : i \in 1..Len(s.Slaves)}

\* C16: after RegisterHosts(s) returns, the keys of m.Agents are exactly the
\* identifiers of the workers of s, each mapped to the resolved address of the
\* worker; workers of an earlier snapshot that s lacks are gone, and no
\* control-plane node is a key.
C16_AgentsAreSnapshotWorkers ==
    (opName = "RegisterHosts" /\ ret = "nil") =>
        /\ DOMAIN m.Agents = WorkerIDs(snap)
        /\ \A i \in 1..Len(snap.Slaves) :
             m.Agents[snap.Slaves[i].ID] = toIP(snap.Slaves[i].PID.Host)
        /\ \A i \in 1..Len(snap.Masters) :
             /\ snap.Masters[i].Ip \notin DOMAIN m.Agents
             /\ MasterEntry(i).of \notin DOMAIN m.Agents

\* The second pass, on a snapshot with control-plane nodes that lacks a worker
\* the first pass registered
C16_Witness ==
    /\ opName = "RegisterHosts"
    /\ ret = "nil"
    /\ nHosts = 2
    /\ Len(snap.Masters) >= 1
    /\ \E e \in produced : e.what = "worker" /\ e.of \notin WorkerIDs(snap)
    /\ DOMAIN m.Agents = WorkerIDs(snap)

Mutating == {"Register", "CacheMark", "CacheDelete"}

BuildApplied == applied.fn = "buildRegisterTaskTags"

\* C14, as claimed: two calls of buildRegisterTaskTags with the same task name,
\* starting tags and rule table return the same sequence.
C14_EqualInputsEqualResults ==
    [][(BuildApplied /\ BuildApplied' /\ applied'.args = applied.args) =>
          applied'.result = applied.result]_vars

\* The tags of the rules whose pattern occurs in the lower-cased task name
MatchedTags(name, taskTag) ==
    UNION {Range(taskTag[pattern]) :
             pattern \in {pt \in DOMAIN taskTag : Contains(ToLower(name), pt)}}

CountIn(sq, v) == Cardinality({k \in 1..Len(sq) : sq[k] = v})

\* C15, as claimed: the result holds every starting tag, every tag of every
\* rule whose pattern occurs in the lower-cased task name, no other tag, and
\* no tag twice.
C15_UnionWithoutDuplicates ==
    BuildApplied =>
        /\ Range(applied.result) =
              Range(applied.args[2]) \cup MatchedTags(applied.args[1], applied.args[3])
        /\ \A v \in Range(applied.result) : CountIn(applied.result, v) = 1

\* C15, amended: the result is the starting list as it was given, followed by
\* the tags of the matching rules that the starting list lacks, each once; it
\* holds no other tag.  A tag occurs twice only where the starting list has it
\* twice.
C15_RuleTagsAppendedOnce ==
    BuildApplied =>
        /\ Len(applied.result) >= Len(applied.args[2])
        /\ SubSeq(applied.result, 1, Len(applied.args[2])) = applied.args[2]
        /\ Range(applied.result) =
              Range(applied.args[2]) \cup MatchedTags(applied.args[1], applied.args[3])
        /\ \A v \in Range(applied.result) :
              CountIn(applied.result, v) =
                 IF v \in Range(applied.args[2]) THEN CountIn(applied.args[2], v) ELSE 1

\* A name with a capital letter that two rules match, one through the capital
\* letter; the rules share a tag and the starting list holds one of their tags
C15_Witness ==
    /\ BuildApplied
    /\ applied.args[1] = Str_a_B
    /\ applied.args[3] = Rules
    /\ applied.args[2] = <<Str_q, Str_x>>
    /\ Range(applied.result) = {Str_q, Str_x, Str_y, Str_z}
    /\ Len(applied.result) = 4

\* C19: with configured suffixes agentTags returns one "role.suffix" for every
\* role and suffix it is given and nothing else, so as many tags as roles
\* times suffixes; with no suffix it returns the roles as they were given.
C19_AgentTagsCrossProduct ==
    applied.fn = "agentTags" =>
        IF m.ServiceTags = <<>> THEN applied.result = applied.args[1]
        ELSE /\ Len(applied.result) = Len(applied.args[1]) * Len(m.ServiceTags)
             /\ \A j \in 1..Len(applied.args[1]), i \in 1..Len(m.ServiceTags) :
                  LET v == applied.args[1][j] \o Dot \o m.ServiceTags[i]
                  IN  CountIn(applied.result, v) =
                        Cardinality({pr \in (1..Len(applied.args[1]))
                                              \X (1..Len(m.ServiceTags)) :
                                        applied.args[1][pr[1]] \o Dot
                                          \o m.ServiceTags[pr[2]] = v})

C19_Witness ==
    /\ applied.fn = "agentTags"
    /\ applied.args[1] = <<LeaderRole, MasterRole>>
    /\ m.ServiceTags = <<Str_t, Str_u>>
    /\ Len(applied.result) = 4
    /\ Range(applied.result) =
          {LeaderRole \o Dot \o Str_t, LeaderRole \o Dot \o Str_u,
           MasterRole \o Dot \o Str_t, MasterRole \o Dot \o Str_u}

\* agentTags with no configured suffix
C19_WitnessNoSuffix ==
    /\ applied.fn = "agentTags"
    /\ m.ServiceTags = <<>>
    /\ applied.result = <<AgentRole, FollowerRole>>

\* The tags a discovery port carries in its own "tags" label
PortTags(port) ==
    IF PortLabel(port.Labels, "tags") # <<>> THEN Split(PortLabel(port.Labels, "tags"))
    ELSE <<>>

\* The entries built for the ports of a task carry the tags claimed for them,
\* for base tags base
PortEntryTags(e, base) ==
    /\ e.what = "primary" => e.svc.Tags = base
    /\ e.what = "named" =>
          e.svc.Tags = base \o <<task.DiscoveryInfo.Ports[e.key + 1].Name>>
                            \o PortTags(task.DiscoveryInfo.Ports[e.key + 1])

\* C18, as claimed: of the entries registerTask builds for the discovery ports
\* of a task, the primary entry carries the base tags and a named-port entry
\* the base tags, then the port's name, then the port's tags; and when
\* registerTask returns every entry still has the tags it was built with,
\* whatever ports were processed after it.
C18_PortTagsFramed ==
    (opName = "registerTask" /\ ret = "nil") =>
        /\ \E base \in BaseTags(task) :
              \A i \in 1..Len(built) : PortEntryTags(built[i], base)
        /\ \A i \in 1..Len(built) : built[i].now = built[i].svc.Tags

====
